---- MODULE Spec2Model ----
(***************************************************************************)
(* Model of the document / web / Wikipedia retrieval tools of rag_agent.   *)
(*                                                                         *)
(* State: the process-wide DocumentState object (tools/document_tools.py)  *)
(* plus a record of the last tool call (its inputs, what the collaborators *)
(* did, what it handed to the vector store and what it returned).          *)
(* Collaborators that live outside the repository (file parsers, the page  *)
(* fetcher, the text splitter, the embedding provider and the FAISS        *)
(* store, the Brave and Wikipedia loaders) are inputs of the actions: the  *)
(* action draws their outcome from a small set.                            *)
(***************************************************************************)
EXTENDS Integers, Sequences, FiniteSets

(***************************************************************************)
(* Bounds of the model.                                                    *)
(***************************************************************************)
\* chunks the document store may hold before doc_index is no longer taken
MaxChunks == 6
\* comma-separated items of files_csv and urls_csv together, per call
MaxBatch == 2
\* documents returned by the Brave search loader
MaxSerp == 2
\* documents returned by the Wikipedia loader
MaxWikiDocs == 2

(***************************************************************************)
(* Program constants.                                                      *)
(***************************************************************************)
\* web_rag_search: count = max(1, min(int(count), 10))
CountMin == 1
CountMax == 10
\* k handed to the ephemeral stores of web_rag_search and wikipedia_rag
WebK == 4
WikiK == 4
\* excerpts and sources shown by doc_rag_search
DocExcerptCap == 4
DocSourceCap == 8
\* excerpts and sources shown by web_rag_search and wikipedia_rag
WebExcerptCap == 4
WebSourceCap == 5
WikiExcerptCap == 4
WikiSourceCap == 5

(***************************************************************************)
(* Small helpers on sequences and integers.                                *)
(***************************************************************************)
Min(a, b) == IF a < b THEN a ELSE b
Max(a, b) == IF a > b THEN a ELSE b

Range(s) == {s[i] : i \in 1..Len(s)}

\* python s[:n]
Take(s, n) == SubSeq(s, 1, Min(n, Len(s)))

\* all sequences over S of length at most n
SeqUpTo(S, n) == UNION {[1..m -> S] : m \in 0..n}

\* python "x in list"
InList(x, s) == \E i \in 1..Len(s) : s[i] = x

(***************************************************************************)
(* The world the tools read: files, URLs and their contents.  A text has   *)
(* a length in characters; the splitter only looks at lengths.             *)
(***************************************************************************)
Cwd == "/cwd/"

\* items that may appear between the commas of files_csv
Blank == " "
FileItems == {"a.txt", "/d/b.MD", "c.exe", Blank}
UrlItems == {"http://u", Blank}

\* os.path.isabs / os.path.abspath
IsAbs(p) == p \in {"/d/b.MD"}
Abspath(p) == IF IsAbs(p) THEN p ELSE Cwd \o p

\* pl = p.lower() followed by the endswith chain: the loader chosen, if any
LoaderOf(p) ==
    CASE p = "/cwd/a.txt" -> "TextLoader"
      [] p = "/d/b.MD"    -> "TextLoader"
      [] OTHER            -> "unsupported"

\* lengths of the documents a source yields when its load succeeds
DocLens(src) ==
    CASE src = "/cwd/a.txt" -> <<3000>>
      [] src = "/d/b.MD"    -> <<0>>
      [] src = "http://u"   -> <<1500>>
      [] src = "http://w1"  -> <<1500>>
      [] src = "http://w2"  -> <<500>>
      [] OTHER              -> << >>

(***************************************************************************)
(* doc_index, lines 27-28: split on ",", strip, drop the empty items.      *)
(***************************************************************************)
Strip(item) == IF item = Blank THEN "" ELSE item

RECURSIVE ParseCsv(_)
ParseCsv(items) ==
    IF items = << >> THEN << >>
    ELSE LET rest == ParseCsv(Tail(items))
         IN  IF Strip(Head(items)) # "" THEN <<Strip(Head(items))>> \o rest
             ELSE rest

(***************************************************************************)
(* What the environment does to one source of a batch.                     *)
(***************************************************************************)
FileEnv == {"ok", "missing", "fail"}
UrlEnv == {"ok", "fail"}

\* the documents a successful load returns, metadata "source" set to src
DocsFrom(src) ==
    [i \in 1..Len(DocLens(src)) |->
        [metadata |-> [source |-> src], len |-> DocLens(src)[i]]]

\* one pass of the file loop, lines 35-70: "missing", "unsupported", "fail"
\* (the except branch) or "ok"
FileOutcome(p, e) ==
    LET ap == Abspath(p)
    IN  IF e = "missing" THEN "missing"
        ELSE IF LoaderOf(ap) = "unsupported" THEN "unsupported"
        ELSE IF e = "fail" THEN "fail"
        ELSE "ok"

\* variant: the first source that does not load ends the loop
RECURSIVE LoadFiles_abort(_, _)
LoadFiles_abort(paths, env) ==
    IF paths = << >> THEN [docs |-> << >>, sources |-> {}]
    ELSE LET rest == LoadFiles_abort(Tail(paths), Tail(env))
             ap == Abspath(Head(paths))
         IN  IF FileOutcome(Head(paths), Head(env)) = "ok"
             THEN [docs |-> DocsFrom(ap) \o rest.docs,
                   sources |-> {ap} \cup rest.sources]
             ELSE [docs |-> << >>, sources |-> {}]

\* the file loop, lines 35-70: docs gathered and sources recorded
RECURSIVE LoadFiles(_, _)
LoadFiles(paths, env) ==
    IF paths = << >> THEN [docs |-> << >>, sources |-> {}]
    ELSE LET rest == LoadFiles(Tail(paths), Tail(env))
             ap == Abspath(Head(paths))
         IN  IF FileOutcome(Head(paths), Head(env)) = "ok"
             THEN [docs |-> DocsFrom(ap) \o rest.docs,
                   sources |-> {ap} \cup rest.sources]
             ELSE rest

\* the URL loop, lines 73-84
RECURSIVE LoadUrls(_, _)
LoadUrls(urls, env) ==
    IF urls = << >> THEN [docs |-> << >>, sources |-> {}]
    ELSE LET rest == LoadUrls(Tail(urls), Tail(env))
         IN  IF Head(env) = "ok"
             THEN [docs |-> DocsFrom(Head(urls)) \o rest.docs,
                   sources |-> {Head(urls)} \cup rest.sources]
             ELSE rest

(***************************************************************************)
(* RecursiveCharacterTextSplitter, seen through lengths.                   *)
(***************************************************************************)
\* (chunk_size, chunk_overlap) pairs a caller may pass
SplitParams == {<<1200, 200>>, <<1000, 200>>, <<200, 1200>>}

\* the constructor rejects an overlap larger than the chunk size
SplitterAccepts(size, overlap) == size > 0 /\ overlap >= 0 /\ overlap <= size

CeilDiv(a, b) == (a + b - 1) \div b

\* chunks of a text of len characters: none for an empty text, one when it
\* fits, then one more per (size - overlap) further characters
NumChunks(len, size, overlap) ==
    IF len = 0 THEN 0
    ELSE IF len <= size THEN 1
    ELSE 1 + CeilDiv(len - size, Max(1, size - overlap))

\* a chunk carries a copy of its document's metadata
SplitDoc(doc, size, overlap) ==
    [i \in 1..NumChunks(doc.len, size, overlap) |->
        [metadata |-> doc.metadata, pos |-> i]]

RECURSIVE split_documents(_, _, _)
split_documents(docs, size, overlap) ==
    IF docs = << >> THEN << >>
    ELSE SplitDoc(Head(docs), size, overlap)
         \o split_documents(Tail(docs), size, overlap)

(***************************************************************************)
(* The FAISS store: None, or the list of documents it holds.               *)
(***************************************************************************)
None == [isNone |-> TRUE, docs |-> << >>]
Store(chunks) == [isNone |-> FALSE, docs |-> chunks]

\* variant: an empty batch yields an empty store
from_documents_empty(chunks, backendOk) ==
    IF backendOk
    THEN [raised |-> FALSE, vdb |-> Store(chunks)]
    ELSE [raised |-> TRUE, vdb |-> None]

\* FAISS.from_documents embeds the batch and sizes the index from the first
\* vector: it raises when the provider fails and when the batch is empty
from_documents(chunks, backendOk) ==
    IF backendOk /\ chunks # << >>
    THEN [raised |-> FALSE, vdb |-> Store(chunks)]
    ELSE [raised |-> TRUE, vdb |-> None]

\* variant: a failing append has already stored the first chunk
add_documents_partial(vdb, chunks, backendOk) ==
    IF backendOk
    THEN [raised |-> FALSE, vdb |-> Store(vdb.docs \o chunks)]
    ELSE [raised |-> TRUE, vdb |-> Store(vdb.docs \o Take(chunks, 1))]

\* vdb.add_documents embeds the batch, then appends it; a failure leaves
\* the store as it was
add_documents(vdb, chunks, backendOk) ==
    IF backendOk
    THEN [raised |-> FALSE, vdb |-> Store(vdb.docs \o chunks)]
    ELSE [raised |-> TRUE, vdb |-> vdb]

(***************************************************************************)
(* doc_index, the steps after the documents are loaded.                    *)
(***************************************************************************)
\* variant: the check for an empty batch is missing
NoDocs_never(docs) == FALSE

\* line 86: if not docs
NoDocs(docs) == docs = << >>

\* variant: every call builds a fresh store
IndexChunks_rebuild(vdb, chunks, backendOk) == from_documents(chunks, backendOk)

\* lines 97-102: create the store on the first call, append afterwards
IndexChunks(vdb, chunks, backendOk) ==
    IF vdb.isNone THEN from_documents(chunks, backendOk)
    ELSE add_documents(vdb, chunks, backendOk)

\* variant: "=" for "+="
NewChunkCount_assign(chunk_count, chunks) == Len(chunks)

\* variant: counts ingest calls
NewChunkCount_calls(chunk_count, chunks) == chunk_count + 1

\* line 104
NewChunkCount(chunk_count, chunks) == chunk_count + Len(chunks)

\* line 105
NewIndexed(vdb, chunk_count) == ~vdb.isNone /\ chunk_count > 0

\* what a tool call hands back: a returned message or a raised exception
Ret(kind, text) ==
    [kind |-> kind, text |-> text, chunks |-> 0, files |-> 0, urls |-> 0,
     excerpts |-> << >>, sources |-> << >>]

\* line 107: the counts the success message carries
IndexedMsg(chunks, paths, urls) ==
    [Ret("return", "Indexed") EXCEPT
        !.chunks = Len(chunks), !.files = Len(paths), !.urls = Len(urls)]

\* lines 97-109: store the chunks, then update the counters; an exception
\* of the store leaves before any assignment, with the store object as the
\* failed call left it
StoreAndCount(st, chunks, paths, urls, backendOk) ==
    LET ix == IndexChunks(st.vdb, chunks, backendOk)
        count == NewChunkCount(st.chunk_count, chunks)
    IN  IF ix.raised
        THEN [st |-> [st EXCEPT !.vdb = ix.vdb],
              ret |-> Ret("raise", "backend error")]
        ELSE [st |-> [st EXCEPT !.vdb = ix.vdb,
                                !.chunk_count = count,
                                !.indexed = NewIndexed(ix.vdb, count)],
              ret |-> IndexedMsg(chunks, paths, urls)]

\* doc_index as a whole: the state after the call, what it hands back, the
\* documents it loaded, the chunks it made and its calls to the backend
doc_index(st, files_csv, urls_csv, size, overlap, fenv, uenv, backendOk) ==
    LET paths == ParseCsv(files_csv)
        urls == ParseCsv(urls_csv)
        lf == LoadFiles(paths, fenv)
        lu == LoadUrls(urls, uenv)
        docs == lf.docs \o lu.docs
        st1 == [st EXCEPT !.sources = @ \cup lf.sources \cup lu.sources]
        chunks == split_documents(docs, size, overlap)
        sc == StoreAndCount(st1, chunks, paths, urls, backendOk)
    IN  IF NoDocs(docs)
        THEN [st |-> st1, ret |-> Ret("return", "No documents loaded"),
              docs |-> docs, chunks |-> << >>, backendCalls |-> 0]
        ELSE IF ~SplitterAccepts(size, overlap)
        THEN [st |-> st1, ret |-> Ret("raise", "splitter error"),
              docs |-> docs, chunks |-> << >>, backendCalls |-> 0]
        ELSE [st |-> sc.st, ret |-> sc.ret,
              docs |-> docs, chunks |-> chunks, backendCalls |-> 1]

(***************************************************************************)
(* Retrieval.  The similarity ranking is the store's own affair: a query   *)
(* for k documents may come back with any min(k, n) of the n stored        *)
(* documents in any order.                                                 *)
(***************************************************************************)
\* all sequences of m distinct elements of S
RECURSIVE Arrangements(_, _)
Arrangements(S, m) ==
    IF m = 0 THEN {<< >>}
    ELSE UNION {{<<x>> \o t : t \in Arrangements(S \ {x}, m - 1)} : x \in S}

\* as_retriever(search_kwargs={"k": k}).get_relevant_documents(query): the
\* query is embedded (the provider may fail); a k below 1 is rejected by
\* some FAISS builds and answered with nothing by others
Retrievals(docs, k) ==
    {[raised |-> TRUE, rel |-> << >>]}
    \cup
    IF k < 1 THEN {[raised |-> FALSE, rel |-> << >>]}
    ELSE {[raised |-> FALSE, rel |-> [i \in 1..Len(a) |-> docs[a[i]]]] :
            a \in Arrangements(1..Len(docs), Min(k, Len(docs)))}

(***************************************************************************)
(* The answer composer shared by the three search tools.                   *)
(***************************************************************************)
\* dict.get: a missing key reads as the empty (falsy) value
Get(metadata, key) == IF key \in DOMAIN metadata THEN metadata[key] ELSE ""

\* python "a or b"
Or(a, b) == IF a # "" THEN a ELSE b

\* variant: the membership test is missing
Cite_always(seen, src) == Append(seen, src)

\* "if src not in seen: seen.append(src)"
Cite(seen, src) == IF InList(src, seen) THEN seen ELSE Append(seen, src)

\* the loop over the retrieved documents, for the identifiers ids[i] it reads
RECURSIVE CiteLoop(_, _)
CiteLoop(ids, seen) ==
    IF ids = << >> THEN seen
    ELSE CiteLoop(Tail(ids), Cite(seen, Head(ids)))

\* document_tools.py line 123
DocSrc(d) ==
    Or(Get(d.metadata, "source"),
       Or(Get(d.metadata, "file_path"),
          Or(Get(d.metadata, "source_path"), "uploaded_document")))

\* variant: the source list is cut to its first entry
Answer_oneSource(text, out, seen, excerptCap, sourceCap) ==
    [Ret("return", text) EXCEPT
        !.excerpts = Take(out, excerptCap), !.sources = Take(seen, 1)]

\* the composed answer: capped excerpts and capped sources
Answer(text, out, seen, excerptCap, sourceCap) ==
    [Ret("return", text) EXCEPT
        !.excerpts = Take(out, excerptCap), !.sources = Take(seen, sourceCap)]

(***************************************************************************)
(* doc_rag_search                                                          *)
(***************************************************************************)
\* no k handed to a store
NoK == << >>

\* variant: the guard is missing
NotIndexed_never(st) == FALSE

\* line 115
NotIndexed(st) == st.vdb.isNone

\* line 117: the k handed to the retriever is int(k)
DocK(k) == k

doc_rag_search(st, k, outcome) ==
    LET ids == [i \in 1..Len(outcome.rel) |-> DocSrc(outcome.rel[i])]
        out == [i \in 1..Len(outcome.rel) |->
                   [source |-> ids[i], doc |-> outcome.rel[i]]]
        seenAll == CiteLoop(ids, << >>)
    IN  IF NotIndexed(st)
        THEN [ret |-> Ret("return", "No indexed documents"),
              kPassed |-> NoK, rel |-> << >>, seen |-> << >>,
              backendCalls |-> 0]
        ELSE IF outcome.raised
        THEN [ret |-> Ret("raise", "backend error"),
              kPassed |-> <<DocK(k)>>, rel |-> << >>, seen |-> << >>,
              backendCalls |-> 1]
        ELSE IF outcome.rel = << >>
        THEN [ret |-> Ret("return", "No relevant passages found"),
              kPassed |-> <<DocK(k)>>, rel |-> << >>, seen |-> << >>,
              backendCalls |-> 1]
        ELSE [ret |-> Answer("Document RAG answer", out, seenAll,
                             DocExcerptCap, DocSourceCap),
              kPassed |-> <<DocK(k)>>, rel |-> outcome.rel, seen |-> seenAll,
              backendCalls |-> 1]

(***************************************************************************)
(* web_rag_search                                                          *)
(***************************************************************************)
\* web_tools.py line 11
ClampCount(count) == Max(CountMin, Min(count, CountMax))

\* links a search hit may carry; "" is a hit without a link
SerpLinks == {"http://w1", "http://w2", ""}

\* BraveSearchLoader(...).load(): it raises, or returns at most count hits
SerpOutcomes(count) ==
    {[raised |-> TRUE, hits |-> << >>]}
    \cup {[raised |-> FALSE, hits |-> h] :
            h \in SeqUpTo(SerpLinks, Min(count, MaxSerp))}

\* web_tools.py lines 17-21: the distinct non-empty links, in order
RECURSIVE CollectLinks(_, _)
CollectLinks(hits, links) ==
    IF hits = << >> THEN links
    ELSE CollectLinks(Tail(hits),
                      IF Head(hits) # "" /\ ~InList(Head(hits), links)
                      THEN Append(links, Head(hits)) ELSE links)

\* web_tools.py lines 26-33: pages that fail to load are passed over
RECURSIVE Scrape(_, _)
Scrape(links, env) ==
    IF links = << >> THEN << >>
    ELSE (IF Head(env) = "ok" THEN DocsFrom(Head(links)) ELSE << >>)
         \o Scrape(Tail(links), Tail(env))

\* web_tools.py line 48
WebSrc(d) ==
    Or(Get(d.metadata, "source"), Or(Get(d.metadata, "link"), "unknown"))

WebChunkSize == 1200
WebChunkOverlap == 200

\* the chunks web_rag_search embeds for the pages it scraped
WebChunks(hits, env) ==
    split_documents(Scrape(CollectLinks(hits, << >>), env),
                    WebChunkSize, WebChunkOverlap)

SearchRet(ret, k, relDocs, seenAll, calls) ==
    [ret |-> ret, kPassed |-> k, rel |-> relDocs, seen |-> seenAll,
     backendCalls |-> calls]

web_rag_search(key, count, serp, env, backendOk, outcome) ==
    LET links == CollectLinks(serp.hits, << >>)
        web_docs == Scrape(links, env)
        cs == WebChunks(serp.hits, env)
        built == from_documents(cs, backendOk)
        ids == [i \in 1..Len(outcome.rel) |-> WebSrc(outcome.rel[i])]
        out == [i \in 1..Len(outcome.rel) |->
                   [source |-> ids[i], doc |-> outcome.rel[i]]]
        seenAll == CiteLoop(ids, << >>)
    IN  IF ~key
        THEN SearchRet(Ret("return", "BRAVE_SEARCH_API_KEY is not set"),
                       NoK, << >>, << >>, 0)
        ELSE IF serp.raised
        THEN SearchRet(Ret("raise", "search error"), NoK, << >>, << >>, 0)
        ELSE IF links = << >>
        THEN SearchRet(Ret("return", "No web results found"),
                       NoK, << >>, << >>, 0)
        ELSE IF web_docs = << >>
        THEN SearchRet(Ret("return", "Failed to load content"),
                       NoK, << >>, << >>, 0)
        ELSE IF built.raised
        THEN SearchRet(Ret("raise", "backend error"), NoK, << >>, << >>, 1)
        ELSE IF outcome.raised
        THEN SearchRet(Ret("raise", "backend error"),
                       <<WebK>>, << >>, << >>, 2)
        ELSE IF outcome.rel = << >>
        THEN SearchRet(Ret("return", "No relevant passages were found"),
                       <<WebK>>, << >>, << >>, 2)
        ELSE SearchRet(Answer("Web RAG answer", out, seenAll,
                              WebExcerptCap, WebSourceCap),
                       <<WebK>>, outcome.rel, seenAll, 2)

(***************************************************************************)
(* wikipedia_rag                                                           *)
(***************************************************************************)
WikiChunkSize == 1000
WikiChunkOverlap == 200

\* pages the Wikipedia loader may return: metadata and text length
WikiPages ==
    {[metadata |-> [title |-> "Alan", source |-> "http://wiki/Alan"],
      len |-> 1500],
     [metadata |-> [title |-> "Wikipedia", source |-> ""], len |-> 800],
     [metadata |-> [source |-> "http://wiki/x"], len |-> 800]}

\* number of pages a caller may ask for
TopDocsInputs == {1, 3}

\* WikipediaLoader(query, load_max_docs=top_docs).load()
WikiOutcomes(top_docs) ==
    {[raised |-> TRUE, pages |-> << >>]}
    \cup {[raised |-> FALSE, pages |-> w] :
            w \in SeqUpTo(WikiPages, Min(top_docs, MaxWikiDocs))}

\* wikipedia_tools.py line 39
WikiTitle(d) == Or(Get(d.metadata, "title"), "Wikipedia")

\* wikipedia_tools.py lines 45-46
WikiSrc(d) ==
    LET url == Or(Get(d.metadata, "source"), Get(d.metadata, "wikipedia_url"))
    IN  IF url # "" THEN <<WikiTitle(d), url>> ELSE <<WikiTitle(d)>>

WikiChunks(pages) == split_documents(pages, WikiChunkSize, WikiChunkOverlap)

wikipedia_rag(loaded, backendOk, outcome) ==
    LET cs == WikiChunks(loaded.pages)
        built == from_documents(cs, backendOk)
        ids == [i \in 1..Len(outcome.rel) |-> WikiTitle(outcome.rel[i])]
        out == [i \in 1..Len(outcome.rel) |->
                   [source |-> WikiSrc(outcome.rel[i]), doc |-> outcome.rel[i]]]
        seenAll == CiteLoop(ids, << >>)
    IN  IF loaded.raised
        THEN SearchRet(Ret("return", "Failed to load from Wikipedia"),
                       NoK, << >>, << >>, 0)
        ELSE IF loaded.pages = << >>
        THEN SearchRet(Ret("return", "No Wikipedia pages found"),
                       NoK, << >>, << >>, 0)
        ELSE IF built.raised
        THEN SearchRet(Ret("raise", "backend error"), NoK, << >>, << >>, 1)
        ELSE IF outcome.raised
        THEN SearchRet(Ret("raise", "backend error"),
                       <<WikiK>>, << >>, << >>, 2)
        ELSE IF outcome.rel = << >>
        THEN SearchRet(Ret("return", "No relevant passages were found"),
                       <<WikiK>>, << >>, << >>, 2)
        ELSE SearchRet(Answer("Wikipedia RAG answer", out, seenAll,
                              WikiExcerptCap, WikiSourceCap),
                       <<WikiK>>, outcome.rel, seenAll, 2)

(***************************************************************************)
(* _handle_status (cli_app.py): what the status report prints.             *)
(***************************************************************************)
handle_status(st) ==
    IF st.indexed /\ ~st.vdb.isNone
    THEN [Ret("return", "Documents indexed") EXCEPT !.chunks = st.chunk_count]
    ELSE Ret("return", "No documents indexed yet")

(***************************************************************************)
(* State.                                                                  *)
(***************************************************************************)
VARIABLES
    doc_state,      \* the DocumentState object: vdb, chunk_count, indexed, sources
    BRAVE_API_KEY,  \* config.py: whether the key is set (read once at import)
    op,             \* "prompt", or the tool whose call has just ended
    args,           \* that call's inputs, the collaborators' outcomes among them
    pre,            \* doc_state when it was called
    ret,            \* what it handed back
    docs,           \* the documents it loaded
    chunks,         \* the chunks it made of them
    backendCalls,   \* its calls to the embedding provider / vector store
    kPassed,        \* <<k>> for the k it handed to a vector store, if any
    rel,            \* the documents the store retrieved for it
    seen,           \* the citation list it built
    session,        \* the session that made the call, "none" at the prompt
    own             \* per session, the chunks its own ingests have indexed

vars == <<doc_state, BRAVE_API_KEY, op, args, pre, ret, docs, chunks,
          backendCalls, kPassed, rel, seen, session, own>>

\* the sessions one process may host: the CLI runs one session, the
\* Streamlit app one per browser session, all importing the same module
CliSession == "A"
Sessions == {"A", "B"}

NoArgs ==
    [files_csv |-> << >>, urls_csv |-> << >>, size |-> 0, overlap |-> 0,
     fenv |-> << >>, uenv |-> << >>, backendOk |-> TRUE, k |-> 0]

\* nothing is being called: the record of the last call is blank
AtPrompt ==
    /\ op = "prompt"
    /\ args = NoArgs
    /\ pre = doc_state
    /\ ret = Ret("return", "")
    /\ docs = << >>
    /\ chunks = << >>
    /\ backendCalls = 0
    /\ kPassed = NoK
    /\ rel = << >>
    /\ seen = << >>
    /\ session = "none"

\* DocumentState.__init__ and the import of config.py
Init ==
    /\ doc_state = [vdb |-> None, chunk_count |-> 0, indexed |-> FALSE,
                    sources |-> {}]
    /\ BRAVE_API_KEY \in BOOLEAN
    /\ own = [s \in Sessions |-> << >>]
    /\ AtPrompt

\* k / count values a caller may pass to a search tool
KInputs == {-1, 0, 2, 4, 11}

\* (files_csv, urls_csv) pairs of at most MaxBatch items together
Batches ==
    {b \in SeqUpTo(FileItems, MaxBatch) \X SeqUpTo(UrlItems, MaxBatch) :
        Len(b[1]) + Len(b[2]) <= MaxBatch}

DocIndexBy(s) ==
    /\ op = "prompt"
    /\ session' = s
    /\ \E b \in Batches, sp \in SplitParams, backendOk \in BOOLEAN :
         \E fenv \in [1..Len(ParseCsv(b[1])) -> FileEnv],
            uenv \in [1..Len(ParseCsv(b[2])) -> UrlEnv] :
           LET r == doc_index(doc_state, b[1], b[2], sp[1], sp[2],
                              fenv, uenv, backendOk)
           IN  /\ r.st.chunk_count <= MaxChunks
               /\ doc_state' = r.st
               /\ op' = "doc_index"
               /\ args' = [NoArgs EXCEPT !.files_csv = b[1],
                                         !.urls_csv = b[2],
                                         !.size = sp[1], !.overlap = sp[2],
                                         !.fenv = fenv, !.uenv = uenv,
                                         !.backendOk = backendOk]
               /\ pre' = doc_state
               /\ ret' = r.ret
               /\ docs' = r.docs
               /\ chunks' = r.chunks
               /\ backendCalls' = r.backendCalls
               /\ kPassed' = NoK
               /\ rel' = << >>
               /\ seen' = << >>
               /\ own' = IF r.ret.text = "Indexed"
                         THEN [own EXCEPT ![s] = @ \o r.chunks]
                         ELSE own
    /\ UNCHANGED BRAVE_API_KEY

DocIndex == DocIndexBy(CliSession)

\* a search tool has ended with r
Searched(tool, k, ok, r) ==
    /\ op' = tool
    /\ args' = [NoArgs EXCEPT !.k = k, !.backendOk = ok]
    /\ pre' = doc_state
    /\ ret' = r.ret
    /\ docs' = << >>
    /\ chunks' = << >>
    /\ backendCalls' = r.backendCalls
    /\ kPassed' = r.kPassed
    /\ rel' = r.rel
    /\ seen' = r.seen
    /\ UNCHANGED <<doc_state, BRAVE_API_KEY, own>>

DocRagSearchBy(s) ==
    /\ op = "prompt"
    /\ session' = s
    /\ \E k \in KInputs :
         \E outcome \in Retrievals(doc_state.vdb.docs, DocK(k)) :
           Searched("doc_rag_search", k, ~outcome.raised,
                    doc_rag_search(doc_state, k, outcome))

DocRagSearch == DocRagSearchBy(CliSession)

WebRagSearch ==
    /\ op = "prompt"
    /\ session' = CliSession
    /\ \E count \in KInputs, backendOk \in BOOLEAN :
         \E serp \in SerpOutcomes(ClampCount(count)) :
           \E env \in [1..Len(CollectLinks(serp.hits, << >>)) -> UrlEnv] :
             \E outcome \in Retrievals(WebChunks(serp.hits, env), WebK) :
               Searched("web_rag_search", count, backendOk,
                        web_rag_search(BRAVE_API_KEY, count, serp, env,
                                       backendOk, outcome))

WikipediaRag ==
    /\ op = "prompt"
    /\ session' = CliSession
    /\ \E top_docs \in TopDocsInputs, backendOk \in BOOLEAN :
         \E loaded \in WikiOutcomes(top_docs) :
           \E outcome \in Retrievals(WikiChunks(loaded.pages), WikiK) :
             Searched("wikipedia_rag", top_docs, backendOk,
                      wikipedia_rag(loaded, backendOk, outcome))

\* the :status command
StatusBy(s) ==
    /\ op = "prompt"
    /\ session' = s
    /\ op' = "status"
    /\ args' = NoArgs
    /\ pre' = doc_state
    /\ ret' = handle_status(doc_state)
    /\ docs' = << >>
    /\ chunks' = << >>
    /\ backendCalls' = 0
    /\ kPassed' = NoK
    /\ rel' = << >>
    /\ seen' = << >>
    /\ UNCHANGED <<doc_state, BRAVE_API_KEY, own>>

Status == StatusBy(CliSession)

\* the caller has taken the result and is ready for the next call
Prompt ==
    /\ op # "prompt"
    /\ op' = "prompt"
    /\ args' = NoArgs
    /\ pre' = doc_state
    /\ ret' = Ret("return", "")
    /\ docs' = << >>
    /\ chunks' = << >>
    /\ backendCalls' = 0
    /\ kPassed' = NoK
    /\ rel' = << >>
    /\ seen' = << >>
    /\ session' = "none"
    /\ UNCHANGED <<doc_state, BRAVE_API_KEY, own>>

Next ==
    DocIndex \/ DocRagSearch \/ WebRagSearch \/ WikipediaRag \/ Status \/ Prompt

Spec == Init /\ [][Next]_vars

\* two sessions in one process, each indexing, searching and asking for
\* the status of the documents
NextSessions ==
    \/ \E s \in Sessions : DocIndexBy(s)
    \/ \E s \in Sessions : DocRagSearchBy(s)
    \/ \E s \in Sessions : StatusBy(s)
    \/ Prompt

SpecSessions == Init /\ [][NextSessions]_vars

(***************************************************************************)
(* Vocabulary of the properties.                                           *)
(***************************************************************************)
\* the INDEXED state of the document index; EMPTY is its negation
Indexed(st) == st.indexed /\ ~st.vdb.isNone

IsPrefix(s, t) == Len(s) <= Len(t) /\ SubSeq(t, 1, Len(s)) = s

NoDuplicates(s) == \A i, j \in 1..Len(s) : s[i] = s[j] => i = j

\* position of the first occurrence of x in s
FirstIndex(x, s) == CHOOSE i \in 1..Len(s) : s[i] = x /\ \A j \in 1..(i - 1) : s[j] # x

\* the last call was a doc_index that returned its success message
IndexSucceeded == op = "doc_index" /\ ret.kind = "return" /\ ret.text = "Indexed"

\* the last call raised an exception to its caller
Raised == ret.kind = "raise"

SearchTools == {"doc_rag_search", "web_rag_search", "wikipedia_rag"}

\* the source identifier the last search tool reads off a retrieved document
IdOf(d) ==
    CASE op = "doc_rag_search" -> DocSrc(d)
      [] op = "web_rag_search" -> WebSrc(d)
      [] OTHER                 -> WikiTitle(d)

\* the store, the counter and the flag are as they were before the last call
IndexUntouched ==
    /\ doc_state.vdb = pre.vdb
    /\ doc_state.chunk_count = pre.chunk_count
    /\ doc_state.indexed = pre.indexed

(***************************************************************************)
(* C1.  Once the index is INDEXED (indexed true and vdb set) no step of    *)
(* any tool, successful or not, takes it back to EMPTY.                    *)
(***************************************************************************)
C1_OneWay == [][Indexed(doc_state) => Indexed(doc_state')]_vars

\* an INDEXED index has gone through a doc_index call that did not succeed
C1_Witness ==
    /\ op = "doc_index"
    /\ Indexed(pre)
    /\ ~IndexSucceeded
    /\ Indexed(doc_state)

(***************************************************************************)
(* C2.  doc_rag_search on an EMPTY index returns the "No indexed           *)
(* documents" message without any call to the store or the embedding       *)
(* provider; on an INDEXED index an empty retrieval gives the other        *)
(* message, "No relevant passages found".                                  *)
(***************************************************************************)
C2_EmptySearch ==
    op = "doc_rag_search" =>
        /\ ~Indexed(pre) =>
             /\ ret = Ret("return", "No indexed documents")
             /\ backendCalls = 0
             /\ kPassed = NoK
        /\ (Indexed(pre) /\ ~Raised /\ rel = << >>) =>
             /\ ret = Ret("return", "No relevant passages found")
             /\ ret # Ret("return", "No indexed documents")

\* a search on an index that is still EMPTY after an ingest that loaded a
\* source and then failed
C2_Witness ==
    /\ op = "doc_rag_search"
    /\ ~Indexed(pre)
    /\ pre.sources # {}
    /\ ret.text = "No indexed documents"

(***************************************************************************)
(* C3.  chunk_count is the number of chunks in the store; a successful     *)
(* ingest adds the number of chunks it produced, and no call lowers it.    *)
(***************************************************************************)
C3_ChunkCount ==
    /\ doc_state.chunk_count = Len(doc_state.vdb.docs)
    /\ doc_state.chunk_count >= pre.chunk_count
    /\ IndexSucceeded =>
         /\ doc_state.chunk_count = pre.chunk_count + Len(chunks)
         /\ chunks = split_documents(docs, args.size, args.overlap)

\* the same source ingested twice: the store holds its chunks twice
C3_Witness ==
    /\ IndexSucceeded
    /\ chunks # << >>
    /\ pre.vdb.docs = chunks
    /\ doc_state.chunk_count = 2 * Len(chunks)

(***************************************************************************)
(* C4.  A doc_index call whose embedding / store call fails, on creation   *)
(* or on append, fails as a whole and leaves the store, chunk_count and    *)
(* indexed as they were.                                                   *)
(***************************************************************************)
C4_BackendFailure ==
    (op = "doc_index" /\ backendCalls > 0 /\ ~args.backendOk) =>
        /\ Raised
        /\ IndexUntouched

\* a failed append to an existing index
C4_Witness ==
    /\ op = "doc_index"
    /\ backendCalls > 0
    /\ ~args.backendOk
    /\ Indexed(pre)
    /\ chunks # << >>

(***************************************************************************)
(* C5.  Every tool call ends by returning a message, never by raising.     *)
(***************************************************************************)
C5_NeverRaises ==
    op \in {"doc_index"} \cup SearchTools => ret.kind = "return"

(***************************************************************************)
(* C6.  Sources that are missing, unsupported or fail to load do not stop  *)
(* the batch: the documents loaded are those of every source that is       *)
(* present, supported and loads, in batch order, and a successful call     *)
(* appends exactly their chunks.                                           *)
(***************************************************************************)
\* the sources of the last doc_index call, each with what became of it
BatchOutcomes ==
    LET paths == ParseCsv(args.files_csv)
        urls == ParseCsv(args.urls_csv)
    IN  [i \in 1..(Len(paths) + Len(urls)) |->
            IF i <= Len(paths)
            THEN [src |-> Abspath(paths[i]),
                  outcome |-> FileOutcome(paths[i], args.fenv[i])]
            ELSE [src |-> urls[i - Len(paths)],
                  outcome |-> args.uenv[i - Len(paths)]]]

LoadedSources == SelectSeq(BatchOutcomes, LAMBDA b : b.outcome = "ok")

RECURSIVE DocsOfAll(_)
DocsOfAll(bs) ==
    IF bs = << >> THEN << >> ELSE DocsFrom(Head(bs).src) \o DocsOfAll(Tail(bs))

\* every loadable source is loaded, and a successful call indexes exactly
\* the chunks of the loaded sources
C6_LoadsTheRest ==
    op = "doc_index" =>
        /\ docs = DocsOfAll(LoadedSources)
        /\ IndexSucceeded =>
             doc_state.vdb.docs =
                 pre.vdb.docs
                 \o split_documents(DocsOfAll(LoadedSources),
                                    args.size, args.overlap)

C7_NothingLoaded ==
    (op = "doc_index" /\ docs = << >>) =>
        /\ ret = Ret("return", "No documents loaded")
        /\ backendCalls = 0
        /\ IndexUntouched

\* a batch of sources none of which loads, on an INDEXED index
C7_Witness ==
    /\ op = "doc_index"
    /\ docs = << >>
    /\ Len(BatchOutcomes) > 0
    /\ Indexed(pre)
    /\ ret.text = "No documents loaded"

(***************************************************************************)
(* C8.  doc_index never drops what the store holds: the store before the   *)
(* call is a prefix of the store after it.                                 *)
(***************************************************************************)
C8_AppendOnly ==
    /\ IsPrefix(pre.vdb.docs, doc_state.vdb.docs)
    /\ ~pre.vdb.isNone => ~doc_state.vdb.isNone

\* a successful ingest into an index that already holds chunks
C8_Witness ==
    /\ IndexSucceeded
    /\ Indexed(pre)
    /\ chunks # << >>
    /\ Len(doc_state.vdb.docs) = Len(pre.vdb.docs) + Len(chunks)

(***************************************************************************)
(* C9.  The citation list of a composed answer names every source of the   *)
(* retrieved documents once, in the order of first occurrence; the         *)
(* sources shown are its first entries.                                    *)
(***************************************************************************)
C9_Citations ==
    (op \in SearchTools /\ rel # << >>) =>
        LET ids == [i \in 1..Len(rel) |-> IdOf(rel[i])]
        IN  /\ NoDuplicates(seen)
            /\ Range(seen) = Range(ids)
            /\ \A i, j \in 1..Len(seen) :
                 i < j => FirstIndex(seen[i], ids) < FirstIndex(seen[j], ids)
            /\ IsPrefix(ret.sources, seen)

\* several retrieved chunks share a source and there is more than one source
C9_Witness ==
    /\ op \in SearchTools
    /\ Len(seen) >= 2
    /\ Len(rel) > Len(seen)
    /\ \E i \in 2..(Len(rel) - 1) :
         IdOf(rel[i]) # IdOf(rel[1]) /\ IdOf(rel[i + 1]) = IdOf(rel[1])

(***************************************************************************)
(* C10.  The k a search tool hands to a vector store lies in [1, 10] and   *)
(* the retrieval is no longer than that k.                                 *)
(***************************************************************************)
C10_ClampedK ==
    (op \in SearchTools /\ kPassed # NoK) =>
        /\ kPassed[1] >= CountMin
        /\ kPassed[1] <= CountMax
        /\ Len(rel) <= kPassed[1]

(***************************************************************************)
(* C13.  The success message of doc_index counts the files and the URLs    *)
(* that the call loaded and indexed, and the chunks it added.              *)
(***************************************************************************)
\* files and URLs of the last doc_index call that were actually loaded
LoadedFileCount ==
    LET paths == ParseCsv(args.files_csv)
    IN  Cardinality({i \in 1..Len(paths) :
                        FileOutcome(paths[i], args.fenv[i]) = "ok"})

LoadedUrlCount ==
    Cardinality({i \in 1..Len(ParseCsv(args.urls_csv)) : args.uenv[i] = "ok"})

C13_MessageCounts ==
    IndexSucceeded =>
        /\ ret.files = LoadedFileCount
        /\ ret.urls = LoadedUrlCount
        /\ ret.chunks = Len(chunks)
        /\ Len(doc_state.vdb.docs) = Len(pre.vdb.docs) + ret.chunks

(***************************************************************************)
(* C14.  In the answer of doc_rag_search the excerpts shown and the        *)
(* sources listed agree: each listed source is the source of an excerpt    *)
(* shown and each excerpt's source is listed; at most 4 excerpts and 8     *)
(* sources are shown.                                                      *)
(***************************************************************************)
\* the last call was a doc_rag_search that composed an answer
DocAnswered == op = "doc_rag_search" /\ ret.text = "Document RAG answer"

ExcerptSources == {ret.excerpts[i].source : i \in 1..Len(ret.excerpts)}

\* the part that holds: the caps, and every excerpt's source is listed
C14_ExcerptsAreListed ==
    DocAnswered =>
        /\ Len(ret.excerpts) <= DocExcerptCap
        /\ Len(ret.sources) <= DocSourceCap
        /\ ret.excerpts # << >>
        /\ ExcerptSources \subseteq Range(ret.sources)

\* the claim as stated: moreover every listed source has an excerpt shown
C14_ExcerptsMatchSources ==
    /\ C14_ExcerptsAreListed
    /\ DocAnswered => Range(ret.sources) \subseteq ExcerptSources

\* the claim as amended: every listed source is the source of a retrieved
\* document, and of an excerpt shown when no retrieved document was cut off
C14_SourcesAreRetrieved ==
    /\ C14_ExcerptsAreListed
    /\ DocAnswered =>
         /\ Range(ret.sources) \subseteq {DocSrc(rel[i]) : i \in 1..Len(rel)}
         /\ Len(rel) <= DocExcerptCap =>
              Range(ret.sources) \subseteq ExcerptSources
         /\ \A i \in 1..Len(ret.excerpts) :
              /\ ret.excerpts[i].doc = rel[i]
              /\ ret.excerpts[i].source = DocSrc(rel[i])

\* more documents retrieved than excerpts shown, and a source that only the
\* documents cut off came from
C14_Witness ==
    /\ DocAnswered
    /\ Len(rel) > DocExcerptCap
    /\ Len(ret.excerpts) = DocExcerptCap
    /\ \E src \in Range(ret.sources) : src \notin ExcerptSources

(***************************************************************************)
(* C12.  indexed is true exactly when vdb is set, and then chunk_count is  *)
(* positive; so the status report says "indexed" exactly when              *)
(* doc_rag_search does not answer "No indexed documents".                  *)
(***************************************************************************)
C12_IndexedIffStore ==
    /\ doc_state.indexed <=> ~doc_state.vdb.isNone
    /\ doc_state.indexed => doc_state.chunk_count > 0
    /\ op = "status" =>
         (ret.text = "Documents indexed" <=> ~NotIndexed(doc_state))
    /\ op = "doc_rag_search" =>
         (ret.text = "No indexed documents" <=>
              handle_status(pre).text = "No documents indexed yet")

\* the status report after the only ingest so far loaded an empty file,
\* whose document gives no chunk
C12_Witness ==
    /\ op = "status"
    /\ doc_state.sources = {"/d/b.MD"}
    /\ ret.text = "No documents indexed yet"
    /\ NotIndexed(doc_state)

(***************************************************************************)
(* C11.  Sessions do not share vector state: what doc_rag_search and the   *)
(* status report give a session depends only on that session's own         *)
(* ingests.                                                                *)
(***************************************************************************)
C11_SessionsIsolated ==
    /\ op = "doc_rag_search" =>
         /\ own[session] = << >> => ret.text = "No indexed documents"
         /\ Range(rel) \subseteq Range(own[session])
    /\ op = "status" =>
         /\ ret.text = "Documents indexed" <=> own[session] # << >>
         /\ ret.chunks = Len(own[session])

====
